---- MODULE Spec2Model ----
(***************************************************************************)
(* Model of the remoteauth JNI platform bridge                             *)
(* (remoteauth_jni_android_platform.rs, remoteauth_jni_android_protocol.rs)*)
(*                                                                         *)
(* Host-runtime threads call into the bridge concurrently.  Every thread   *)
(* runs one operation at a time (init, JavaPlatform::create, send_request, *)
(* a success delivery or an error delivery); an operation is a sequence of *)
(* steps, one per lock acquisition / atomic operation / host-runtime call, *)
(* so that every interleaving the locks allow is explored.                 *)
(*                                                                         *)
(* The two counters are AtomicI64.  They are capped below by MaxPlatforms  *)
(* and MaxRequests, so the 2^63 wrap-around of fetch_add is never reached. *)
(***************************************************************************)
EXTENDS Integers, Sequences, FiniteSets, TLC

\* ---------------------------------------------------------------- bounds
NumThreads == 2
MaxPlatforms == 2
MaxRequests == 2
MaxInits == 1

Threads == 1..NumThreads

\* Inputs the callers draw from.
ConnectionIds == {5}
RequestPayloads == {<<1, 2, 200>>}
ErrorCodes == {3}
\* A jbyteArray handed over by the host: a null reference or an array of
\* signed bytes.
NullArray == [null |-> TRUE, bytes |-> <<>>]
ResponseArrays == {NullArray, [null |-> FALSE, bytes |-> <<9, -1>>]}
\* Handles the host may echo back.  Each of them is unregistered (unallocated)
\* until a construction (a send_request) that was given it succeeds.
PlatformHandles == 0..(MaxPlatforms - 1)
ResponseHandles == 0..(MaxRequests - 1)

\* An unlocked Mutex / an absent Option.
NoThread == 0
NoVal == -1

VARIABLES
    HANDLE_RN,        \* static AtomicI64
    HANDLE_MAPPING,   \* static Mutex<HashMap<i64, Arc<Mutex<JavaPlatform>>>>: the map
    regLock,          \* ... and the owner of its Mutex
    platforms,        \* the JavaPlatform objects built so far, by object identity
    jvm,              \* unique_jvm: TRUE once init captured the JavaVM
    initLogs,         \* logger::init calls made by native_init
    regLogs,          \* logger::init calls made by insert_platform_handle
    pc,               \* per thread: the step it executes next
    frame,            \* per thread: arguments and locals of its operation
    ret,              \* per thread: how its last operation ended
    requests,         \* one record per send_request call (= per callback)
    generated,        \* the values generate_platform_handle returned, in the order of the fetch_add
    matched           \* <<object, response handle>> of completed deliveries that came after the insert

vars == <<HANDLE_RN, HANDLE_MAPPING, regLock, platforms, jvm, initLogs, regLogs,
          pc, frame, ret, requests, generated, matched>>

\* ------------------------------------------------------- data structures
Range(f) == {f[x] : x \in DOMAIN f}

\* A load of the counter for the fetch_add.
fetch_add_load(counter) == [old |-> counter, new |-> counter]

\* AtomicI64::fetch_add(1, SeqCst): returns the previous value.
fetch_add(counter) == [old |-> counter, new |-> counter + 1]

\* An insert that replaces the map's content by the new entry.
map_insert_alone(m, k, v) == [x \in {k} |-> v]

\* HashMap::insert: adds the entry, replacing one with the same key.
map_insert(m, k, v) == [x \in DOMAIN m \cup {k} |-> IF x = k THEN v ELSE m[x]]

\* A lookup that leaves the entry in the map (get().cloned() for remove()).
map_remove_keep(m, k) ==
    IF k \in DOMAIN m THEN [found |-> TRUE, val |-> m[k], map |-> m]
    ELSE [found |-> FALSE, val |-> NoVal, map |-> m]

\* HashMap::remove: takes the entry out and returns it, if there is one.
map_remove(m, k) ==
    IF k \in DOMAIN m
    THEN [found |-> TRUE, val |-> m[k], map |-> [x \in DOMAIN m \ {k} |-> m[x]]]
    ELSE [found |-> FALSE, val |-> NoVal, map |-> m]

\* HashMap::get.
map_get(m, k) ==
    IF k \in DOMAIN m THEN [found |-> TRUE, val |-> m[k]]
    ELSE [found |-> FALSE, val |-> NoVal]

\* JNIEnv::convert_byte_array: jbyteArray -> Vec<u8>; a null array is an error,
\* a signed byte is reinterpreted as unsigned.
convert_byte_array(a) ==
    IF a.null THEN [ok |-> FALSE, val |-> <<>>]
    ELSE [ok |-> TRUE, val |-> [i \in DOMAIN a.bytes |-> a.bytes[i] % 256]]

\* JNIEnv::byte_array_from_slice: &[u8] -> jbyteArray (signed bytes).
byte_array_from_slice(s) ==
    [null |-> FALSE,
     bytes |-> [i \in DOMAIN s |-> IF s[i] >= 128 THEN s[i] - 256 ELSE s[i]]]

EmptyFrame ==
    [ph |-> NoVal, obj |-> NoVal, rh |-> NoVal, conn |-> NoVal, req |-> <<>>,
     resp |-> NullArray, val |-> <<>>, code |-> NoVal, cb |-> NoVal]

\* An instance whose platform_handle field is not set from the argument.
NewPlatform_unset_handle(platform_handle) ==
    [platform_handle |-> 0, map_futures |-> <<>>,
     mfLock |-> NoThread, atomic_handle |-> 0, lock |-> NoThread]

\* JavaPlatform::new's Ok(Self { .. }).
NewPlatform(platform_handle) ==
    [platform_handle |-> platform_handle,
     map_futures |-> <<>>,
     mfLock |-> NoThread,
     atomic_handle |-> 0,
     lock |-> NoThread]

Finish(t, result) ==
    /\ pc' = [pc EXCEPT ![t] = "idle"]
    /\ frame' = [frame EXCEPT ![t] = EmptyFrame]
    /\ ret' = [ret EXCEPT ![t] = result]

Goto(t, label, fr) ==
    /\ pc' = [pc EXCEPT ![t] = label]
    /\ frame' = [frame EXCEPT ![t] = fr]
    /\ ret' = [ret EXCEPT ![t] = "running"]

At(t, label) == pc[t] = label

\* The process aborts: every thread ends where it is.
Abort ==
    /\ pc' = [t \in Threads |-> "aborted"]
    /\ UNCHANGED <<frame, ret>>

\* ------------------------------------------------------------------ Init
Init ==
    /\ HANDLE_RN = 0
    /\ HANDLE_MAPPING = <<>>
    /\ regLock = NoThread
    /\ platforms = <<>>
    /\ jvm = FALSE
    /\ initLogs = 0
    /\ regLogs = 0
    /\ pc = [t \in Threads |-> "idle"]
    /\ frame = [t \in Threads |-> EmptyFrame]
    /\ ret = [t \in Threads |-> "none"]
    /\ requests = <<>>
    /\ generated = <<>>
    /\ matched = {}

\* ------------------------------------------------------------ native_init
\* unique_jvm::set_once: keeps the first JavaVM it is given and reports
\* whether it was this one.
unique_jvm_set_once == [ok |-> ~jvm, jvm |-> TRUE]

\* unique_jvm::get_static_ref: the captured JavaVM, if any.
unique_jvm_get_static_ref == [found |-> jvm]

\* Java_..._native_init: logger::init, then env.get_java_vm()? and
\* unique_jvm::set_once(jvm).  captured = FALSE is get_java_vm failing.
native_init(t, captured) ==
    /\ At(t, "idle")
    /\ initLogs < MaxInits
    /\ initLogs' = initLogs + 1
    /\ jvm' = IF captured THEN unique_jvm_set_once.jvm ELSE jvm
    /\ Finish(t, IF captured /\ unique_jvm_set_once.ok
                 THEN "native_init: true" ELSE "native_init: false")
    /\ UNCHANGED <<HANDLE_RN, HANDLE_MAPPING, regLock, platforms, regLogs,
                   requests, generated, matched>>

\* ------------------------------------------------- JavaPlatform::create
\* A load of the counter (fetch_add(0)) for the fetch_add(1).
generate_platform_handle_stuck == [old |-> HANDLE_RN, new |-> HANDLE_RN]

\* generate_platform_handle: HANDLE_RN.fetch_add(1, Ordering::SeqCst).
generate_platform_handle == fetch_add(HANDLE_RN)

\* create, line 112: let platform_handle = generate_platform_handle();
create_generate(t) ==
    /\ At(t, "idle")
    /\ HANDLE_RN < MaxPlatforms
    /\ HANDLE_RN' = generate_platform_handle.new
    /\ generated' = Append(generated, generate_platform_handle.old)
    /\ Goto(t, "c_new", [EmptyFrame EXCEPT !.ph = generate_platform_handle.old])
    /\ UNCHANGED <<HANDLE_MAPPING, regLock, platforms, jvm, initLogs, regLogs,
                   requests, matched>>

\* A create that registers the handle whether or not the instance was built.
create_new_regardless(t, bound) ==
    /\ At(t, "c_new")
    /\ platforms' = (frame[t].ph :> NewPlatform(frame[t].ph)) @@ platforms
    /\ Goto(t, "c_insert", [frame[t] EXCEPT !.obj = frame[t].ph])
    /\ UNCHANGED <<HANDLE_RN, HANDLE_MAPPING, regLock, jvm, initLogs, regLogs,
                   requests, generated, matched>>

\* create, lines 113-117: unique_jvm::get_static_ref().ok_or(..)? and
\* JavaPlatform::new(..)?.  bound = FALSE is attach_current_thread,
\* get_object_class, new_global_ref or get_method_id failing.
create_new(t, bound) ==
    /\ At(t, "c_new")
    /\ IF unique_jvm_get_static_ref.found /\ bound
       THEN /\ platforms' = (frame[t].ph :> NewPlatform(frame[t].ph)) @@ platforms
            /\ Goto(t, "c_insert", [frame[t] EXCEPT !.obj = frame[t].ph])
       ELSE /\ platforms' = platforms
            /\ Finish(t, "create: Err")
    /\ UNCHANGED <<HANDLE_RN, HANDLE_MAPPING, regLock, jvm, initLogs, regLogs,
                   requests, generated, matched>>

\* A registration that initializes logging for every handle.
insert_platform_handle_always_logs(t) ==
    /\ At(t, "c_insert")
    /\ regLock = NoThread
    /\ regLogs' = regLogs + 1
    /\ HANDLE_MAPPING' = map_insert(HANDLE_MAPPING, frame[t].ph, frame[t].obj)
    /\ Finish(t, "create: Ok")
    /\ UNCHANGED <<HANDLE_RN, regLock, platforms, jvm, initLogs,
                   requests, generated, matched>>

\* A registration under one fixed key, which replaces the entry of the
\* instance registered before.
insert_platform_handle_fixed_key(t) ==
    /\ At(t, "c_insert")
    /\ regLock = NoThread
    /\ regLogs' = IF 0 = frame[t].ph THEN regLogs + 1 ELSE regLogs
    /\ HANDLE_MAPPING' = map_insert(HANDLE_MAPPING, 0, frame[t].obj)
    /\ Finish(t, "create: Ok")
    /\ UNCHANGED <<HANDLE_RN, regLock, platforms, jvm, initLogs,
                   requests, generated, matched>>

\* insert_platform_handle, then Ok(Arc::clone(&platform)).
insert_platform_handle(t) ==
    /\ At(t, "c_insert")
    /\ regLock = NoThread
    /\ regLogs' = IF 0 = frame[t].ph THEN regLogs + 1 ELSE regLogs
    /\ HANDLE_MAPPING' = map_insert(HANDLE_MAPPING, frame[t].ph, frame[t].obj)
    /\ Finish(t, "create: Ok")
    /\ UNCHANGED <<HANDLE_RN, regLock, platforms, jvm, initLogs,
                   requests, generated, matched>>

\* ------------------------------------------------ JavaPlatform::send_request
NewRequest(o, c, req) ==
    [obj |-> o, conn |-> c, req |-> req, rh |-> NoVal, inserted |-> FALSE,
     hostCalls |-> <<>>, fired |-> <<>>, result |-> "pending"]

\* The caller holds Arc<Mutex<impl Platform>> (what create returns) and
\* send_request takes &mut self: the call is made under the instance's Mutex.
\* TypeSignature::from_str parses the constant SEND_REQUEST_MSIG.
send_request_enter(t, o, c, req) ==
    /\ At(t, "idle")
    /\ Len(requests) < MaxRequests
    /\ o \in Range(HANDLE_MAPPING)
    /\ platforms[o].lock = NoThread
    /\ platforms' = [platforms EXCEPT ![o].lock = t]
    /\ requests' = Append(requests, NewRequest(o, c, req))
    /\ Goto(t, "s_alloc", [EmptyFrame EXCEPT !.obj = o, !.conn = c, !.req = req,
                                             !.cb = Len(requests) + 1])
    /\ UNCHANGED <<HANDLE_RN, HANDLE_MAPPING, regLock, jvm, initLogs, regLogs,
                   generated, matched>>

\* line 155: let response_handle = self.atomic_handle.fetch_add(1, SeqCst);
send_request_alloc(t) ==
    /\ At(t, "s_alloc")
    /\ LET o == frame[t].obj
           fa == fetch_add(platforms[o].atomic_handle)
       IN /\ platforms' = [platforms EXCEPT ![o].atomic_handle = fa.new]
          /\ requests' = [requests EXCEPT ![frame[t].cb].rh = fa.old]
          /\ Goto(t, "s_insert", [frame[t] EXCEPT !.rh = fa.old])
    /\ UNCHANGED <<HANDLE_RN, HANDLE_MAPPING, regLock, jvm, initLogs, regLogs,
                   generated, matched>>

\* The callback not stored ahead of the outbound call.
send_request_insert_deferred(t) ==
    /\ At(t, "s_insert")
    /\ platforms[frame[t].obj].mfLock = NoThread
    /\ Goto(t, "s_attach", frame[t])
    /\ UNCHANGED <<HANDLE_RN, HANDLE_MAPPING, regLock, platforms, jvm, initLogs,
                   regLogs, requests, generated, matched>>

\* A store of the callback that goes through the registry lock while it holds
\* the instance.
send_request_insert_under_registry(t) ==
    /\ At(t, "s_insert")
    /\ regLock = NoThread
    /\ LET o == frame[t].obj
       IN /\ platforms[o].mfLock = NoThread
          /\ platforms' = [platforms EXCEPT ![o].map_futures =
                               map_insert(@, frame[t].rh, frame[t].cb)]
    /\ requests' = [requests EXCEPT ![frame[t].cb].inserted = TRUE]
    /\ Goto(t, "s_attach", frame[t])
    /\ UNCHANGED <<HANDLE_RN, HANDLE_MAPPING, regLock, jvm, initLogs, regLogs,
                   generated, matched>>

\* line 156: self.map_futures.lock().unwrap().insert(response_handle, callback);
send_request_insert(t) ==
    /\ At(t, "s_insert")
    /\ LET o == frame[t].obj
       IN /\ platforms[o].mfLock = NoThread
          /\ platforms' = [platforms EXCEPT ![o].map_futures =
                               map_insert(@, frame[t].rh, frame[t].cb)]
    /\ requests' = [requests EXCEPT ![frame[t].cb].inserted = TRUE]
    /\ Goto(t, "s_attach", frame[t])
    /\ UNCHANGED <<HANDLE_RN, HANDLE_MAPPING, regLock, jvm, initLogs, regLogs,
                   generated, matched>>

\* An error path that takes the inserted entry out again.
send_request_attach_cleanup(t, attached) ==
    /\ At(t, "s_attach")
    /\ IF attached
       THEN /\ Goto(t, "s_call", frame[t])
            /\ UNCHANGED <<platforms, requests>>
       ELSE /\ platforms' = [platforms EXCEPT
                                ![frame[t].obj].lock = NoThread,
                                ![frame[t].obj].map_futures = map_remove(@, frame[t].rh).map]
            /\ requests' = [requests EXCEPT ![frame[t].cb].result = "Err"]
            /\ Finish(t, "send_request: Err")
    /\ UNCHANGED <<HANDLE_RN, HANDLE_MAPPING, regLock, jvm, initLogs, regLogs,
                   generated, matched>>

\* lines 157-160 and 182: attach_current_thread and byte_array_from_slice;
\* attached = FALSE is either of them failing: the closure is left with `?`
\* and send_request returns Err to its caller, who drops the instance's guard.
send_request_attach(t, attached) ==
    /\ At(t, "s_attach")
    /\ IF attached
       THEN /\ Goto(t, "s_call", frame[t])
            /\ UNCHANGED <<platforms, requests>>
       ELSE /\ platforms' = [platforms EXCEPT ![frame[t].obj].lock = NoThread]
            /\ requests' = [requests EXCEPT ![frame[t].cb].result = "Err"]
            /\ Finish(t, "send_request: Err")
    /\ UNCHANGED <<HANDLE_RN, HANDLE_MAPPING, regLock, jvm, initLogs, regLogs,
                   generated, matched>>

\* The two jlong arguments in the other order.
OutboundArgs_swapped(t) ==
    <<frame[t].conn, byte_array_from_slice(frame[t].req).bytes,
      platforms[frame[t].obj].platform_handle, frame[t].rh>>

\* lines 164-174: the arguments of env.call_method_unchecked.
OutboundArgs(t) ==
    <<frame[t].conn, byte_array_from_slice(frame[t].req).bytes, frame[t].rh,
      platforms[frame[t].obj].platform_handle>>

\* lines 164-174: the outbound host call.
send_request_call(t) ==
    /\ At(t, "s_call")
    /\ requests' = [requests EXCEPT ![frame[t].cb].hostCalls = Append(@, OutboundArgs(t))]
    /\ Goto(t, "s_ret", frame[t])
    /\ UNCHANGED <<HANDLE_RN, HANDLE_MAPPING, regLock, platforms, jvm, initLogs,
                   regLogs, generated, matched>>

\* A return that waits until the response has been delivered.
send_request_return_blocking(t) ==
    /\ At(t, "s_ret")
    /\ requests[frame[t].cb].fired # <<>>
    /\ platforms' = [platforms EXCEPT ![frame[t].obj].lock = NoThread]
    /\ requests' = [requests EXCEPT ![frame[t].cb].result = "Ok"]
    /\ Finish(t, "send_request: Ok")
    /\ UNCHANGED <<HANDLE_RN, HANDLE_MAPPING, regLock, jvm, initLogs, regLogs,
                   generated, matched>>

\* lines 175-183: Ok(()); the caller drops the instance's guard.
send_request_return(t) ==
    /\ At(t, "s_ret")
    /\ platforms' = [platforms EXCEPT ![frame[t].obj].lock = NoThread]
    /\ requests' = [requests EXCEPT ![frame[t].cb].result = "Ok"]
    /\ Finish(t, "send_request: Ok")
    /\ UNCHANGED <<HANDLE_RN, HANDLE_MAPPING, regLock, jvm, initLogs, regLogs,
                   generated, matched>>

\* ------------------------------------------------------ completion delivery
\* A lookup keyed by the other jlong argument.
RegistryLookup_wrong_key(t, fr, found_label) ==
    /\ At(t, "idle")
    /\ regLock = NoThread
    /\ regLock' = t
    /\ LET got == map_get(HANDLE_MAPPING, fr.rh)
       IN IF got.found
          THEN Goto(t, found_label, [fr EXCEPT !.obj = got.val])
          ELSE Goto(t, "d_throw", fr)
    /\ UNCHANGED <<HANDLE_RN, HANDLE_MAPPING, platforms, jvm, initLogs, regLogs,
                   requests, generated, matched>>

\* line 247 / 279: if let Some(platform) = HANDLE_MAPPING.lock().unwrap().get(..)
\* The guard is a temporary of the scrutinee: the registry stays locked until
\* the end of the if/else.
RegistryLookup(t, fr, found_label) ==
    /\ At(t, "idle")
    /\ regLock = NoThread
    /\ regLock' = t
    /\ LET got == map_get(HANDLE_MAPPING, fr.ph)
       IN IF got.found
          THEN Goto(t, found_label, [fr EXCEPT !.obj = got.val])
          ELSE Goto(t, "d_throw", fr)
    /\ UNCHANGED <<HANDLE_RN, HANDLE_MAPPING, platforms, jvm, initLogs, regLogs,
                   requests, generated, matched>>

native_on_send_request_success(t, app_response, platform_handle, response_handle) ==
    RegistryLookup(t, [EmptyFrame EXCEPT !.resp = app_response, !.ph = platform_handle,
                                         !.rh = response_handle], "ds_convert")

native_on_send_request_error(t, error_code, platform_handle, response_handle) ==
    RegistryLookup(t, [EmptyFrame EXCEPT !.code = error_code, !.ph = platform_handle,
                                         !.rh = response_handle], "de_lock")

\* The else branch without the throw_new.
throw_bad_handle_silent(t) ==
    /\ At(t, "d_throw")
    /\ regLock' = NoThread
    /\ Finish(t, "returned")
    /\ UNCHANGED <<HANDLE_RN, HANDLE_MAPPING, platforms, jvm, initLogs, regLogs,
                   requests, generated, matched>>

\* lines 253-256 / 283-286: env.throw_new(BadHandleException, ..), then the
\* registry guard is dropped.
throw_bad_handle(t) ==
    /\ At(t, "d_throw")
    /\ regLock' = NoThread
    /\ Finish(t, "BadHandleException")
    /\ UNCHANGED <<HANDLE_RN, HANDLE_MAPPING, platforms, jvm, initLogs, regLogs,
                   requests, generated, matched>>

\* lines 248-249: env.convert_byte_array(app_response)...unwrap().  The panic
\* of a failed conversion unwinds into a JNI entry point (extern "system"),
\* which aborts the process.
native_on_send_request_success_convert(t) ==
    /\ At(t, "ds_convert")
    /\ LET conv == convert_byte_array(frame[t].resp)
       IN IF conv.ok
          THEN Goto(t, "ds_lock", [frame[t] EXCEPT !.val = conv.val])
          ELSE Abort
    /\ UNCHANGED <<HANDLE_RN, HANDLE_MAPPING, regLock, platforms, jvm, initLogs,
                   regLogs, requests, generated, matched>>

\* line 250 / 280: (*platform).lock().unwrap()
LockPlatform(t, here, next) ==
    /\ At(t, here)
    /\ platforms[frame[t].obj].lock = NoThread
    /\ platforms' = [platforms EXCEPT ![frame[t].obj].lock = t]
    /\ Goto(t, next, frame[t])
    /\ UNCHANGED <<HANDLE_RN, HANDLE_MAPPING, regLock, jvm, initLogs, regLogs,
                   requests, generated, matched>>

native_on_send_request_success_lock(t) == LockPlatform(t, "ds_lock", "ds_pop")
native_on_send_request_error_lock(t) == LockPlatform(t, "de_lock", "de_pop")

\* A pop that reads the entry and leaves it in the table.
PopCallback_peek(t, here, some_label, none_label) ==
    /\ At(t, here)
    /\ LET o == frame[t].obj
           got == map_get(platforms[o].map_futures, frame[t].rh)
       IN /\ platforms[o].mfLock = NoThread
          /\ platforms' = [platforms EXCEPT ![o].mfLock = t]
          /\ IF got.found
             THEN Goto(t, some_label, [frame[t] EXCEPT !.cb = got.val])
             ELSE Goto(t, none_label, frame[t])
    /\ UNCHANGED <<HANDLE_RN, HANDLE_MAPPING, regLock, jvm, initLogs, regLogs,
                   requests, generated, matched>>

\* line 195 / 215: if let Some(mut callback) =
\*     self.map_futures.lock().unwrap().remove(&response_handle)
\* The table's guard is a temporary of the scrutinee: the table stays locked
\* until the end of the if/else.
PopCallback(t, here, some_label, none_label) ==
    /\ At(t, here)
    /\ LET o == frame[t].obj
           popped == map_remove(platforms[o].map_futures, frame[t].rh)
       IN /\ platforms[o].mfLock = NoThread
          /\ platforms' = [platforms EXCEPT ![o].mfLock = t,
                                            ![o].map_futures = popped.map]
          /\ IF popped.found
             THEN Goto(t, some_label, [frame[t] EXCEPT !.cb = popped.val])
             ELSE Goto(t, none_label, frame[t])
    /\ UNCHANGED <<HANDLE_RN, HANDLE_MAPPING, regLock, jvm, initLogs, regLogs,
                   requests, generated, matched>>

on_send_request_success_pop(t) == PopCallback(t, "ds_pop", "ds_cb", "ds_log")
on_send_request_error_pop(t) == PopCallback(t, "de_pop", "de_cb", "de_log")

\* The response handles ever inserted into the table of object o.
InsertedHandles(o) ==
    {requests[i].rh : i \in {j \in DOMAIN requests :
                                requests[j].obj = o /\ requests[j].inserted}}

\* The end of a delivery that reached the instance: the table's guard, the
\* instance's guard and the registry's guard are dropped, in that order.
EndDelivery(t, result) ==
    /\ platforms' = [platforms EXCEPT ![frame[t].obj].mfLock = NoThread,
                                      ![frame[t].obj].lock = NoThread]
    /\ regLock' = NoThread
    /\ matched' = IF frame[t].rh \in InsertedHandles(frame[t].obj)
                  THEN matched \cup {<<frame[t].obj, frame[t].rh>>}
                  ELSE matched
    /\ Finish(t, result)
    /\ UNCHANGED <<HANDLE_RN, HANDLE_MAPPING, jvm, initLogs, regLogs, generated>>

\* line 196: callback.on_response(response.to_vec());
on_send_request_success_callback(t) ==
    /\ At(t, "ds_cb")
    /\ requests' = [requests EXCEPT ![frame[t].cb].fired =
                        Append(@, <<"on_response", frame[t].val>>)]
    /\ EndDelivery(t, "invoked")

\* line 216: callback.on_error(error_code);
on_send_request_error_callback(t) ==
    /\ At(t, "de_cb")
    /\ requests' = [requests EXCEPT ![frame[t].cb].fired =
                        Append(@, <<"on_error", frame[t].code>>)]
    /\ EndDelivery(t, "invoked")

\* A miss that empties the instance's table.
on_send_request_success_log_clears(t) ==
    /\ At(t, "ds_log")
    /\ requests' = requests
    /\ platforms' = [platforms EXCEPT ![frame[t].obj].mfLock = NoThread,
                                      ![frame[t].obj].lock = NoThread,
                                      ![frame[t].obj].map_futures = <<>>]
    /\ regLock' = NoThread
    /\ matched' = IF frame[t].rh \in InsertedHandles(frame[t].obj)
                  THEN matched \cup {<<frame[t].obj, frame[t].rh>>}
                  ELSE matched
    /\ Finish(t, "Failed to find TX")
    /\ UNCHANGED <<HANDLE_RN, HANDLE_MAPPING, jvm, initLogs, regLogs, generated>>

\* lines 198-203: error!("Failed to find TX ...")
on_send_request_success_log(t) ==
    /\ At(t, "ds_log")
    /\ requests' = requests
    /\ EndDelivery(t, "Failed to find TX")

\* The unmatched response reported like an unknown platform handle.
on_send_request_error_log_throws(t) ==
    /\ At(t, "de_log")
    /\ requests' = requests
    /\ EndDelivery(t, "BadHandleException")

\* lines 218-223: error!("Failed to find callback ...")
on_send_request_error_log(t) ==
    /\ At(t, "de_log")
    /\ requests' = requests
    /\ EndDelivery(t, "Failed to find callback")

\* ------------------------------------------------------------------ Next
Next ==
    \/ \E t \in Threads, captured \in BOOLEAN : native_init(t, captured)
    \/ \E t \in Threads : create_generate(t)
    \/ \E t \in Threads, bound \in BOOLEAN : create_new(t, bound)
    \/ \E t \in Threads : insert_platform_handle(t)
    \/ \E t \in Threads, o \in DOMAIN platforms, c \in ConnectionIds,
          req \in RequestPayloads : send_request_enter(t, o, c, req)
    \/ \E t \in Threads : send_request_alloc(t)
    \/ \E t \in Threads : send_request_insert(t)
    \/ \E t \in Threads, attached \in BOOLEAN : send_request_attach(t, attached)
    \/ \E t \in Threads : send_request_call(t)
    \/ \E t \in Threads : send_request_return(t)
    \/ \E t \in Threads, a \in ResponseArrays, p \in PlatformHandles,
          r \in ResponseHandles : native_on_send_request_success(t, a, p, r)
    \/ \E t \in Threads, e \in ErrorCodes, p \in PlatformHandles,
          r \in ResponseHandles : native_on_send_request_error(t, e, p, r)
    \/ \E t \in Threads : throw_bad_handle(t)
    \/ \E t \in Threads : native_on_send_request_success_convert(t)
    \/ \E t \in Threads : native_on_send_request_success_lock(t)
    \/ \E t \in Threads : native_on_send_request_error_lock(t)
    \/ \E t \in Threads : on_send_request_success_pop(t)
    \/ \E t \in Threads : on_send_request_error_pop(t)
    \/ \E t \in Threads : on_send_request_success_callback(t)
    \/ \E t \in Threads : on_send_request_error_callback(t)
    \/ \E t \in Threads : on_send_request_success_log(t)
    \/ \E t \in Threads : on_send_request_error_log(t)

Spec == Init /\ [][Next]_vars

\* ------------------------------------------------------------ observations
\* The outbound call of request cb has been made.
Issued(cb) == requests[cb].hostCalls # <<>>

\* Every callback's invocations so far, and every instance's pending table.
Fired == [cb \in DOMAIN requests |-> requests[cb].fired]
Tables == [o \in DOMAIN platforms |-> platforms[o].map_futures]

\* Thread t takes the step (and the step is not the abort of the process).
Steps(t) == (pc'[t] # pc[t] \/ frame'[t] # frame[t]) /\ pc'[t] # "aborted"

InDelivery == {"ds_pop", "de_pop", "ds_cb", "de_cb", "ds_log", "de_log"}
DeliveryEntered == {"ds_convert", "de_lock", "d_throw"}

\* The bytes of a Java byte[] read as unsigned.
AsUnsigned(bytes) == [i \in DOMAIN bytes |-> IF bytes[i] < 0 THEN bytes[i] + 256 ELSE bytes[i]]

\* The requests whose callback was stored for (platform handle p, response handle r).
StoredFor(p, r) ==
    {cb \in DOMAIN requests :
        /\ requests[cb].inserted
        /\ requests[cb].rh = r
        /\ p \in DOMAIN HANDLE_MAPPING
        /\ HANDLE_MAPPING[p] = requests[cb].obj}

\* ------------------------------------------------------------------ claims

\* C1: the callback of an issued request is invoked at most once, and exactly
\* once as soon as one matching delivery has completed; a further delivery for
\* the same response handle invokes no callback and removes no pending entry.
C1_InvokedOnce ==
    \A cb \in DOMAIN requests :
        Issued(cb) =>
            /\ Len(requests[cb].fired) <= 1
            /\ <<requests[cb].obj, requests[cb].rh>> \in matched
                   => Len(requests[cb].fired) = 1
C1_FurtherDeliveryIsNoOp ==
    \A t \in Threads :
        (pc[t] \in InDelivery /\ Steps(t) /\ <<frame[t].obj, frame[t].rh>> \in matched)
            => Fired' = Fired /\ Tables' = Tables
C1_ExactlyOnce == [](C1_InvokedOnce) /\ [][C1_FurtherDeliveryIsNoOp]_vars

\* C1 witness: an issued request whose callback fired once, and a later
\* delivery for the same response handle that found no entry.
C1_Witness ==
    \E cb \in DOMAIN requests, t \in Threads :
        /\ Issued(cb)
        /\ Len(requests[cb].fired) = 1
        /\ pc[t] \in {"ds_log", "de_log"}
        /\ frame[t].obj = requests[cb].obj
        /\ frame[t].rh = requests[cb].rh

\* C2: a success delivery (b, p, r) that finds a pending entry invokes
\* on_response(b) of the callback stored by the send_request on instance p that
\* was allocated r, an error delivery (e, p, r) invokes its on_error(e), and no
\* other callback is invoked.
C2_Step(t) ==
    /\ (pc[t] = "ds_pop" /\ Steps(t)
            /\ frame[t].rh \in DOMAIN platforms[frame[t].obj].map_futures)
          => pc'[t] = "ds_cb"
    /\ (pc[t] = "de_pop" /\ Steps(t)
            /\ frame[t].rh \in DOMAIN platforms[frame[t].obj].map_futures)
          => pc'[t] = "de_cb"
    /\ (pc[t] = "ds_cb" /\ Steps(t)) =>
          /\ Cardinality(StoredFor(frame[t].ph, frame[t].rh)) = 1
          /\ \A cb \in DOMAIN requests :
                Fired'[cb] = IF cb \in StoredFor(frame[t].ph, frame[t].rh)
                             THEN Append(Fired[cb],
                                         <<"on_response", AsUnsigned(frame[t].resp.bytes)>>)
                             ELSE Fired[cb]
    /\ (pc[t] = "de_cb" /\ Steps(t)) =>
          /\ Cardinality(StoredFor(frame[t].ph, frame[t].rh)) = 1
          /\ \A cb \in DOMAIN requests :
                Fired'[cb] = IF cb \in StoredFor(frame[t].ph, frame[t].rh)
                             THEN Append(Fired[cb], <<"on_error", frame[t].code>>)
                             ELSE Fired[cb]
C2_Routing == [][\A t \in Threads : C2_Step(t)]_vars

\* C2 witness: one callback received on_response, another one on_error.
C2_Witness ==
    \E cb1, cb2 \in DOMAIN requests :
        /\ requests[cb1].fired = << <<"on_response", <<9, 255>> >> >>
        /\ requests[cb2].fired = << <<"on_error", 3>> >>

\* C3: a delivery for a platform handle that is not registered throws
\* BadHandleException, invokes no callback, changes neither the registry nor
\* any pending table, and keeps nothing of the completion.
C3_Step(t) ==
    /\ (pc[t] = "idle" /\ pc'[t] \in DeliveryEntered
            /\ frame'[t].ph \notin DOMAIN HANDLE_MAPPING)
          => /\ pc'[t] = "d_throw"
             /\ requests' = requests
             /\ HANDLE_MAPPING' = HANDLE_MAPPING
             /\ platforms' = platforms
    /\ (pc[t] = "d_throw" /\ Steps(t))
          => /\ pc'[t] = "idle"
             /\ ret'[t] = "BadHandleException"
             /\ frame'[t] = EmptyFrame
             /\ requests' = requests
             /\ HANDLE_MAPPING' = HANDLE_MAPPING
             /\ platforms' = platforms
C3_UnknownPlatformThrows ==
    /\ [](\A t \in Threads : pc[t] = "d_throw" => frame[t].ph \notin DOMAIN HANDLE_MAPPING)
    /\ [][\A t \in Threads : C3_Step(t)]_vars

\* C3 witness: with a callback pending, one thread got the exception from one
\* entry point and another is about to get it from the success entry point.
C3_Witness ==
    \E t1, t2 \in Threads, cb \in DOMAIN requests :
        /\ ret[t1] = "BadHandleException"
        /\ pc[t2] = "d_throw"
        /\ frame[t2].code = NoVal
        /\ requests[cb].inserted
        /\ requests[cb].fired = <<>>

\* C4: a delivery for a registered platform handle whose response handle has no
\* pending entry throws nothing, invokes no callback and leaves the pending
\* tables as they are; it ends with the error log.
C4_Step(t) ==
    /\ (pc[t] \in {"ds_convert", "ds_lock", "de_lock"} /\ Steps(t))
          => Fired' = Fired /\ Tables' = Tables /\ ret'[t] # "BadHandleException"
    /\ (pc[t] \in {"ds_pop", "de_pop"} /\ Steps(t)
            /\ frame[t].rh \notin DOMAIN platforms[frame[t].obj].map_futures)
          => /\ pc'[t] = (IF pc[t] = "ds_pop" THEN "ds_log" ELSE "de_log")
             /\ Fired' = Fired
             /\ Tables' = Tables
    /\ (pc[t] \in {"ds_log", "de_log"} /\ Steps(t))
          => /\ pc'[t] = "idle"
             /\ ret'[t] = (IF pc[t] = "ds_log" THEN "Failed to find TX"
                                               ELSE "Failed to find callback")
             /\ Fired' = Fired
             /\ Tables' = Tables
C4_UnmatchedResponseOnlyLogs ==
    /\ [](\A t \in Threads : pc[t] \in {"ds_log", "de_log"} =>
            /\ frame[t].ph \in DOMAIN HANDLE_MAPPING
            /\ frame[t].rh \notin DOMAIN platforms[frame[t].obj].map_futures)
    /\ [][\A t \in Threads : C4_Step(t)]_vars

\* C4 witness: both entry points ended with their log while a callback of the
\* instance was pending and stayed so.
C4_Witness ==
    \E t1, t2 \in Threads, cb \in DOMAIN requests :
        /\ ret[t1] = "Failed to find TX"
        /\ ret[t2] = "Failed to find callback"
        /\ requests[cb].fired = <<>>
        /\ requests[cb].rh \in DOMAIN platforms[requests[cb].obj].map_futures

\* C5: every value generate_platform_handle returns is greater than every value
\* it returned before, to whichever caller: the values are pairwise distinct,
\* each caller's values increase in the order of its calls, and the handle of
\* a failed construction is not issued again.
C5_HandlesIncrease ==
    /\ \A i, j \in DOMAIN generated : i < j => generated[i] < generated[j]
    /\ \A t \in Threads : pc[t] \in {"c_new", "c_insert"} =>
            \E i \in DOMAIN generated : generated[i] = frame[t].ph
    /\ \A t1, t2 \in Threads :
            (t1 # t2 /\ pc[t1] \in {"c_new", "c_insert"} /\ pc[t2] \in {"c_new", "c_insert"})
                => frame[t1].ph # frame[t2].ph

\* C5 witness: two callers inside create at the same time, each holding the
\* handle it was given.
C5_Witness ==
    \E t1, t2 \in Threads :
        /\ t1 # t2
        /\ pc[t1] = "c_new"
        /\ pc[t2] = "c_new"
        /\ frame[t1].ph < frame[t2].ph
        /\ Len(generated) = 2

\* C6: within one instance the allocated response handles are pairwise distinct
\* and count up from 0, whether or not the call issues afterwards.
AllocatedOn(o) == {cb \in DOMAIN requests : requests[cb].obj = o /\ requests[cb].rh # NoVal}
C6_ResponseHandlesDistinct ==
    \A o \in DOMAIN platforms :
        /\ \A cb1, cb2 \in AllocatedOn(o) : cb1 # cb2 => requests[cb1].rh # requests[cb2].rh
        /\ {requests[cb].rh : cb \in AllocatedOn(o)} = 0..(platforms[o].atomic_handle - 1)

\* C6 witness: two instances allocated the same response handle, and one of
\* the two calls failed to issue.
C6_Witness ==
    \E cb1, cb2 \in DOMAIN requests :
        /\ requests[cb1].obj # requests[cb2].obj
        /\ requests[cb1].rh = 0
        /\ requests[cb2].rh = 0
        /\ requests[cb1].result = "Err"
        /\ requests[cb2].result = "Ok"

\* C7: as long as no delivery has taken a callback of an instance, its pending
\* table holds exactly one entry per send_request that reached the insert, each
\* under that call's response handle and holding that call's callback.
InsertedOn(o) == {cb \in DOMAIN requests : requests[cb].obj = o /\ requests[cb].inserted}
NoneTaken(o) ==
    /\ \A cb \in InsertedOn(o) : requests[cb].fired = <<>>
    /\ \A t \in Threads : pc[t] \in {"ds_cb", "de_cb"} => frame[t].obj # o
C7_NoLostEntries ==
    \A o \in DOMAIN platforms :
        NoneTaken(o) =>
            /\ Cardinality(DOMAIN platforms[o].map_futures) = Cardinality(InsertedOn(o))
            /\ \A cb \in InsertedOn(o) :
                  /\ requests[cb].rh \in DOMAIN platforms[o].map_futures
                  /\ platforms[o].map_futures[requests[cb].rh] = cb

\* C7 witness: two threads sent on the same instance, one has returned and the
\* other is past its insert; the table holds both entries.
C7_Witness ==
    \E t1, t2 \in Threads :
        /\ t1 # t2
        /\ Len(requests) = 2
        /\ ret[t1] = "send_request: Ok"
        /\ pc[t2] = "s_call"
        /\ frame[t2].cb = 2
        /\ requests[1].obj = requests[2].obj
        /\ NoneTaken(requests[1].obj)
        /\ Cardinality(DOMAIN platforms[requests[1].obj].map_futures) = 2

\* The bytes of a Rust &[u8] as the signed bytes of a Java byte[].
AsSigned(bytes) == [i \in DOMAIN bytes |-> IF bytes[i] > 127 THEN bytes[i] - 256 ELSE bytes[i]]

\* C8 as stated: every send_request that was allocated a response handle and
\* has returned made exactly one outbound host call.
C8_Original ==
    \A cb \in DOMAIN requests :
        (requests[cb].rh # NoVal /\ requests[cb].result # "pending")
            => Len(requests[cb].hostCalls) = 1

\* C8, amended: a send_request makes at most one outbound host call: exactly
\* one if it attaches the environment and marshals the payload (it returns
\* Ok), none if that fails (it returns Err).  The call carries (c, bytes, r, p)
\* in this order, r the key under which the callback is stored and p the handle
\* under which the instance is registered; the first request of an instance
\* carries r = 0.
C8_Calls ==
    \A cb \in DOMAIN requests :
        /\ Len(requests[cb].hostCalls) <= 1
        /\ requests[cb].result = "Ok" => Len(requests[cb].hostCalls) = 1
        /\ requests[cb].result = "Err" => Len(requests[cb].hostCalls) = 0
        /\ (Issued(cb) /\ \A other \in 1..(cb - 1) : requests[other].obj # requests[cb].obj)
              => requests[cb].hostCalls[1][3] = 0
C8_CallStep(t) ==
    (pc[t] = "s_call" /\ Steps(t)) =>
        LET cb == frame[t].cb
            o == requests[cb].obj
            calls == requests'[cb].hostCalls
        IN /\ Len(calls) = 1
           /\ calls[1][1] = requests[cb].conn
           /\ calls[1][2] = AsSigned(requests[cb].req)
           /\ calls[1][3] \in DOMAIN platforms[o].map_futures
           /\ platforms[o].map_futures[calls[1][3]] = cb
           /\ calls[1][4] \in DOMAIN HANDLE_MAPPING
           /\ HANDLE_MAPPING[calls[1][4]] = o
           /\ \A other \in DOMAIN requests \ {cb} :
                 requests'[other].hostCalls = requests[other].hostCalls
C8_OutboundCall == [](C8_Calls) /\ [][\A t \in Threads : C8_CallStep(t)]_vars

\* C8 witness: a returned send_request whose one call carries a response
\* handle different from the platform handle.
C8_Witness ==
    \E cb \in DOMAIN requests :
        /\ requests[cb].result = "Ok"
        /\ Len(requests[cb].hostCalls) = 1
        /\ requests[cb].hostCalls[1][1] = 5
        /\ requests[cb].hostCalls[1][2] = <<1, 2, -56>>
        /\ requests[cb].hostCalls[1][3] = 0
        /\ requests[cb].hostCalls[1][4] = 1

\* C9: a thread inside send_request can always take its next step, whatever
\* has or has not been delivered: its steps wait for no delivery.
SendPcs == {"s_alloc", "s_insert", "s_attach", "s_call", "s_ret"}
SendStep(t) ==
    \/ send_request_alloc(t)
    \/ send_request_insert(t)
    \/ \E attached \in BOOLEAN : send_request_attach(t, attached)
    \/ send_request_call(t)
    \/ send_request_return(t)
C9_SendNeverWaits == \A t \in Threads : pc[t] \in SendPcs => ENABLED SendStep(t)

\* C9 witness: a send_request is about to return while nothing was delivered
\* for its response handle and its callback is still pending.
C9_Witness ==
    \E t \in Threads :
        /\ pc[t] = "s_ret"
        /\ requests[frame[t].cb].fired = <<>>
        /\ matched = {}
        /\ frame[t].rh \in DOMAIN platforms[frame[t].obj].map_futures

\* C10: a send_request that fails to attach returns Err, has made no outbound
\* call, invokes no callback and leaves its entry in the pending table.
C10_FailStep(t) ==
    (pc[t] = "s_attach" /\ Steps(t) /\ pc'[t] # "s_call") =>
        LET cb == frame[t].cb
            o == frame[t].obj
        IN /\ pc'[t] = "idle"
           /\ ret'[t] = "send_request: Err"
           /\ requests'[cb].hostCalls = <<>>
           /\ Fired' = Fired
           /\ Tables' = Tables
           /\ frame[t].rh \in DOMAIN platforms'[o].map_futures
           /\ platforms'[o].map_futures[frame[t].rh] = cb
C10_AttachFailureLeavesEntry ==
    /\ [](\A cb \in DOMAIN requests : requests[cb].result = "Err" => ~Issued(cb))
    /\ [][\A t \in Threads : C10_FailStep(t)]_vars

\* C10 witness: a send_request returned Err and its entry is in the table.
C10_Witness ==
    \E t \in Threads, cb \in DOMAIN requests :
        /\ ret[t] = "send_request: Err"
        /\ requests[cb].result = "Err"
        /\ requests[cb].hostCalls = <<>>
        /\ requests[cb].fired = <<>>
        /\ requests[cb].rh \in DOMAIN platforms[requests[cb].obj].map_futures
        /\ platforms[requests[cb].obj].map_futures[requests[cb].rh] = cb

\* C11: a create that fails (no JavaVM captured by native_init, or the
\* attach / class / method lookup of JavaPlatform::new failing) returns Err to
\* its caller, builds no instance and leaves the registry unchanged; without a
\* captured JavaVM create always fails; every registered handle is the handle
\* of an instance that was built.
C11_FailStep(t) ==
    /\ (pc[t] = "c_new" /\ Steps(t) /\ ~jvm) => pc'[t] = "idle"
    /\ (pc[t] = "c_new" /\ Steps(t) /\ pc'[t] # "c_insert") =>
          /\ pc'[t] = "idle"
          /\ ret'[t] = "create: Err"
          /\ frame'[t] = EmptyFrame
          /\ HANDLE_MAPPING' = HANDLE_MAPPING
          /\ platforms' = platforms
          /\ frame[t].ph \notin DOMAIN HANDLE_MAPPING'
C11_FailedCreateLeavesRegistry ==
    /\ [](\A h \in DOMAIN HANDLE_MAPPING :
             h \in DOMAIN platforms /\ HANDLE_MAPPING[h] = h)
    /\ [](\A t \in Threads : pc[t] = "c_insert" => jvm)
    /\ [][\A t \in Threads : C11_FailStep(t)]_vars

\* C11 witness: the first create returned Err, the second one registered its
\* instance, and the registry holds no entry for the first one's handle.
C11_Witness ==
    \E t \in Threads :
        /\ ret[t] = "create: Err"
        /\ HANDLE_RN = 2
        /\ DOMAIN HANDLE_MAPPING = {1}
        /\ DOMAIN platforms = {1}

\* C12: the callback is stored under the allocated response handle before the
\* outbound call: while send_request is at or past the call the entry for its
\* response handle is in the table; an issued request was stored first; a
\* delivery for an issued response handle that waits for the instance or is
\* about to pop finds the entry unless the callback was already invoked, and
\* a delivery that found no entry leaves no issued request without its
\* invocation.
WaitingDelivery == {"ds_convert", "ds_lock", "de_lock", "ds_pop", "de_pop"}
IssuedFor(o, r) ==
    {cb \in DOMAIN requests :
        requests[cb].obj = o /\ requests[cb].rh = r /\ Issued(cb)}
Pending(cb) ==
    LET table == platforms[requests[cb].obj].map_futures
    IN requests[cb].rh \in DOMAIN table /\ table[requests[cb].rh] = cb
C12_InsertedBeforeCall ==
    /\ \A cb \in DOMAIN requests : Issued(cb) => requests[cb].inserted
    /\ \A t \in Threads : pc[t] \in {"s_call", "s_ret"} => Pending(frame[t].cb)
    /\ \A t \in Threads : pc[t] \in WaitingDelivery =>
          \A cb \in IssuedFor(frame[t].obj, frame[t].rh) :
              Pending(cb) \/ requests[cb].fired # <<>>
    /\ \A t \in Threads : pc[t] \in {"ds_log", "de_log"} =>
          \A cb \in IssuedFor(frame[t].obj, frame[t].rh) : requests[cb].fired # <<>>
    /\ \A t \in Threads : pc[t] \in {"ds_cb", "de_cb"} =>
          /\ requests[frame[t].cb].inserted
          /\ requests[frame[t].cb].obj = frame[t].obj
          /\ requests[frame[t].cb].rh = frame[t].rh

\* C12 witness: the outbound call was made and send_request has not returned,
\* while a delivery for the same instance and response handle has arrived on
\* another thread and waits for the instance.
C12_Witness ==
    \E t1, t2 \in Threads :
        /\ pc[t1] = "s_ret"
        /\ Issued(frame[t1].cb)
        /\ pc[t2] \in {"ds_lock", "de_lock"}
        /\ frame[t2].obj = frame[t1].obj
        /\ frame[t2].rh = frame[t1].rh

\* C13: no thread holds the registry lock or a pending-table lock while it
\* makes a host-runtime call (the payload conversion, the throw of the
\* exception, the attach, marshalling and outbound call of send_request) or
\* while it runs a completion callback.
HostCallPcs == {"ds_convert", "d_throw", "s_attach", "s_call"}
CallbackPcs == {"ds_cb", "de_cb"}
HoldsRegistry(t) == regLock = t
HoldsTable(t) == \E o \in DOMAIN platforms : platforms[o].mfLock = t
C13_Original ==
    \A t \in Threads :
        pc[t] \in HostCallPcs \cup CallbackPcs => ~HoldsRegistry(t) /\ ~HoldsTable(t)

\* The callback of request cb has been taken out of its table by a delivery.
Taken(cb) ==
    \/ requests[cb].fired # <<>>
    \/ \E t \in Threads : pc[t] \in CallbackPcs /\ frame[t].cb = cb
RequestsOn(o) == {cb \in DOMAIN requests : requests[cb].obj = o}
OnePerHandle(o) ==
    /\ \A cb1, cb2 \in RequestsOn(o) :
          (requests[cb1].inserted /\ requests[cb2].inserted
             /\ requests[cb1].rh = requests[cb2].rh) => cb1 = cb2
    /\ \A r \in DOMAIN platforms[o].map_futures :
          /\ platforms[o].map_futures[r] \in RequestsOn(o)
          /\ requests[platforms[o].map_futures[r]].rh = r

\* C14 as stated: the keys of each pending table are exactly the response
\* handles whose outbound call has been issued and whose callback no delivery
\* has taken, with one entry per response handle.
C14_Original ==
    \A o \in DOMAIN platforms :
        /\ OnePerHandle(o)
        /\ DOMAIN platforms[o].map_futures =
              {requests[cb].rh : cb \in {c \in RequestsOn(o) : Issued(c) /\ ~Taken(c)}}

\* C14 amended: the keys of each pending table are exactly the response
\* handles under which a send_request has stored its callback (before its
\* outbound call, and whether or not the call is then made) and whose callback
\* no delivery has taken, with one entry per response handle.
C14_TableKeys ==
    \A o \in DOMAIN platforms :
        /\ OnePerHandle(o)
        /\ DOMAIN platforms[o].map_futures =
              {requests[cb].rh :
                  cb \in {c \in RequestsOn(o) : requests[c].inserted /\ ~Taken(c)}}

\* C14 witness: on one instance a send_request that failed to attach left its
\* entry, and a request that was issued has had its entry taken by a delivery.
C14_Witness ==
    \E cb1, cb2 \in DOMAIN requests :
        /\ requests[cb1].obj = requests[cb2].obj
        /\ requests[cb1].result = "Err"
        /\ Pending(cb1)
        /\ Issued(cb2)
        /\ requests[cb2].fired # <<>>
        /\ DOMAIN platforms[requests[cb1].obj].map_futures = {requests[cb1].rh}

\* C15: no step removes or replaces a registry entry: every handle that is
\* registered stays registered with the same instance, so a later lookup of it
\* finds that instance again; the only step that changes the registry is the
\* registration of a successful create, which adds one entry under a handle
\* that was not registered.
C15_Step ==
    /\ \A h \in DOMAIN HANDLE_MAPPING :
          h \in DOMAIN HANDLE_MAPPING' /\ HANDLE_MAPPING'[h] = HANDLE_MAPPING[h]
    /\ HANDLE_MAPPING' # HANDLE_MAPPING =>
          \E t \in Threads :
             /\ pc[t] = "c_insert" /\ pc'[t] = "idle" /\ ret'[t] = "create: Ok"
             /\ frame[t].ph \notin DOMAIN HANDLE_MAPPING
             /\ DOMAIN HANDLE_MAPPING' = DOMAIN HANDLE_MAPPING \cup {frame[t].ph}
             /\ HANDLE_MAPPING'[frame[t].ph] = frame[t].obj
    /\ \A t \in Threads :
          (pc[t] = "c_insert" /\ Steps(t)) => frame[t].ph \in DOMAIN HANDLE_MAPPING'
C15_RegistryOnlyGrows ==
    /\ [](\A t \in Threads :
             pc[t] \in WaitingDelivery \cup {"ds_cb", "de_cb", "ds_log", "de_log"} =>
                 /\ frame[t].ph \in DOMAIN HANDLE_MAPPING
                 /\ HANDLE_MAPPING[frame[t].ph] = frame[t].obj)
    /\ [][C15_Step]_vars

\* C15 witness: after a second instance was registered and a callback of the
\* first one was invoked, a lookup of the first handle has found the first
\* instance again.
C15_Witness ==
    \E t \in Threads, cb \in DOMAIN requests :
        /\ DOMAIN HANDLE_MAPPING = {0, 1}
        /\ requests[cb].obj = 0
        /\ requests[cb].fired # <<>>
        /\ pc[t] \in {"ds_lock", "de_lock"}
        /\ frame[t].ph = 0
        /\ frame[t].obj = 0

\* Thread t is a delivery that reached the instance o for response handle r.
DeliveryFor(t, o, r) ==
    /\ pc[t] \in InDelivery
    /\ frame[t].obj = o
    /\ frame[t].rh = r
    /\ frame[t].ph \in DOMAIN HANDLE_MAPPING
    /\ HANDLE_MAPPING[frame[t].ph] = o

\* C16: an entry leaves its table only in the pop of a delivery that named its
\* instance's platform handle and its response handle; every other entry of
\* every table is left as it was by every step (a send_request only adds an
\* entry); an entry for which no delivery has reached its instance is still
\* in the table and its callback has not been invoked.
C16_Step ==
    \A o \in DOMAIN platforms : \A r \in DOMAIN Tables[o] :
        \/ r \in DOMAIN Tables'[o] /\ Tables'[o][r] = Tables[o][r]
        \/ \E t \in Threads :
              /\ pc[t] \in {"ds_pop", "de_pop"}
              /\ DeliveryFor(t, o, r)
              /\ pc'[t] \in CallbackPcs
              /\ frame'[t].cb = Tables[o][r]
              /\ DOMAIN Tables'[o] = DOMAIN Tables[o] \ {r}
C16_Untouched ==
    \A cb \in DOMAIN requests :
        (/\ requests[cb].inserted
         /\ <<requests[cb].obj, requests[cb].rh>> \notin matched
         /\ ~\E t \in Threads :
               DeliveryFor(t, requests[cb].obj, requests[cb].rh) /\ pc[t] \in CallbackPcs)
        => Pending(cb) /\ requests[cb].fired = <<>>
C16_OnlyMatchingDeliveryRemoves == [](C16_Untouched) /\ [][C16_Step]_vars

\* C16 witness: one instance holds two entries; a delivery has completed for
\* one response handle; the other entry, for which nothing was delivered, is
\* still there, its callback not invoked, with every send_request returned.
C16_Witness ==
    \E cb1, cb2 \in DOMAIN requests :
        /\ requests[cb1].obj = requests[cb2].obj
        /\ requests[cb1].result = "Ok"
        /\ requests[cb2].result = "Ok"
        /\ Len(requests[cb1].fired) = 1
        /\ matched = {<<requests[cb1].obj, requests[cb1].rh>>}
        /\ Pending(cb2)
        /\ requests[cb2].fired = <<>>
        /\ \A t \in Threads : pc[t] = "idle"

\* Thread t is at the payload conversion of a success delivery and the
\* conversion fails.
ConversionFails(t) ==
    pc[t] = "ds_convert" /\ ~convert_byte_array(frame[t].resp).ok

\* C17: the step of a failing payload conversion invokes no callback, removes
\* no pending entry, and stops the handling thread only: every other thread
\* is where it was and is not stopped.
C17_FailStep(t) ==
    (ConversionFails(t) /\ pc'[t] # pc[t]) =>
        /\ Fired' = Fired
        /\ Tables' = Tables
        /\ \A u \in Threads \ {t} : pc'[u] = pc[u] /\ pc'[u] # "aborted"
C17_Original == [][\A t \in Threads : C17_FailStep(t)]_vars

\* What holds of the logging initialization of insert_platform_handle: it has
\* run once if handle 0 is registered and not at all otherwise (so registering
\* any other handle, and native_init, leave it alone), and the k-th call of
\* create is given handle k - 1, whether or not it goes on to build and
\* register its instance.
LoggingFollowsHandleZero ==
    /\ regLogs = IF 0 \in DOMAIN HANDLE_MAPPING THEN 1 ELSE 0
    /\ \A k \in DOMAIN generated : generated[k] = k - 1
    /\ \A t \in Threads : pc[t] \in {"c_new", "c_insert"} =>
          frame[t].ph \in Range(generated) /\ frame[t].ph \notin DOMAIN HANDLE_MAPPING

\* C18 as stated: in addition, the first instance to be built is the one
\* with handle 0 (unless the create holding handle 0 is still under way).
C18_Original ==
    /\ LoggingFollowsHandleZero
    /\ DOMAIN platforms # {} =>
          \/ 0 \in DOMAIN platforms
          \/ \E t \in Threads : pc[t] = "c_new" /\ frame[t].ph = 0

\* C18 amended: registration initializes logging exactly when the handle is
\* 0, hence at most once; handle 0 goes to the first call of create, and if
\* that call fails no instance ever has handle 0 and no registration
\* initializes logging; the second call of create gets handle 1.
C18_LoggingOnHandleZero ==
    /\ LoggingFollowsHandleZero
    /\ regLogs <= 1
    /\ (0 \notin DOMAIN platforms /\ generated # <<>>
          /\ ~\E t \in Threads : pc[t] = "c_new" /\ frame[t].ph = 0)
       => regLogs = 0 /\ 0 \notin DOMAIN HANDLE_MAPPING

\* C18 witness: native_init ran, the first create registered handle 0 and
\* initialized logging, and the second create registered handle 1 with no
\* further initialization.
C18_Witness ==
    /\ initLogs = 1
    /\ generated = <<0, 1>>
    /\ DOMAIN HANDLE_MAPPING = {0, 1}
    /\ regLogs = 1
    /\ \A t \in Threads : pc[t] = "idle"
    /\ \E t \in Threads : ret[t] = "create: Ok"

\* The holder of the lock that thread t must take in its next step, or
\* NoThread when the step takes no lock or the lock is free.
WaitsFor(t) ==
    CASE pc[t] = "c_insert" -> regLock
      [] pc[t] \in {"ds_lock", "de_lock"} -> platforms[frame[t].obj].lock
      [] pc[t] \in {"s_insert", "ds_pop", "de_pop"} -> platforms[frame[t].obj].mfLock
      [] OTHER -> NoThread
Blocked(t) == WaitsFor(t) # NoThread
RECURSIVE EndOfWait(_, _)
EndOfWait(t, n) ==
    IF n = 0 \/ ~Blocked(t) THEN t ELSE EndOfWait(WaitsFor(t), n - 1)
HoldsInstance(t) == \E o \in DOMAIN platforms : platforms[o].lock = t

\* The next step of a thread that is inside an operation.
Continue(t) ==
    \/ \E bound \in BOOLEAN : create_new(t, bound)
    \/ insert_platform_handle(t)
    \/ SendStep(t)
    \/ throw_bad_handle(t)
    \/ native_on_send_request_success_convert(t)
    \/ native_on_send_request_success_lock(t)
    \/ native_on_send_request_error_lock(t)
    \/ on_send_request_success_pop(t)
    \/ on_send_request_error_pop(t)
    \/ on_send_request_success_callback(t)
    \/ on_send_request_error_callback(t)
    \/ on_send_request_success_log(t)
    \/ on_send_request_error_log(t)

\* C19: locks are taken in the order registry, instance, pending table: a
\* thread about to take the registry lock holds no lock, a thread about to
\* take an instance holds no instance and no table, a table is held only
\* under its instance; a thread inside an operation can take its next step
\* unless the lock it needs is held, and following the holders from any
\* waiting thread ends at a thread that is not waiting: no set of threads
\* waits for one another, and the threads are never all blocked.
C19_LockOrderNoDeadlock ==
    /\ \A t \in Threads :
          /\ pc[t] \in {"idle", "c_new", "c_insert"} =>
                ~HoldsRegistry(t) /\ ~HoldsInstance(t) /\ ~HoldsTable(t)
          /\ pc[t] \in {"ds_lock", "de_lock"} =>
                HoldsRegistry(t) /\ ~HoldsInstance(t) /\ ~HoldsTable(t)
          /\ pc[t] \in {"s_insert", "ds_pop", "de_pop"} =>
                platforms[frame[t].obj].lock = t /\ ~HoldsTable(t)
          /\ pc[t] \in SendPcs => ~HoldsRegistry(t)
          /\ \A o \in DOMAIN platforms :
                platforms[o].mfLock = t => platforms[o].lock = t /\ HoldsRegistry(t)
    /\ \A t \in Threads :
          (pc[t] \notin {"idle", "aborted"} /\ ~Blocked(t)) => ENABLED Continue(t)
    /\ \A t \in Threads : ~Blocked(EndOfWait(t, NumThreads))
    /\ \E t \in Threads : ~Blocked(t)

\* C19 witness: a delivery holds the registry and waits for an instance whose
\* holder, inside send_request, is about to take the instance's table lock.
C19_Witness ==
    \E t1, t2 \in Threads :
        /\ pc[t1] = "s_insert"
        /\ pc[t2] \in {"ds_lock", "de_lock"}
        /\ regLock = t2
        /\ WaitsFor(t2) = t1
        /\ ~Blocked(t1)

\* C20: the instance registered under handle h has h in its platform_handle
\* field, and h is below the handle counter; the platform handle carried by
\* an outbound call is registered and is looked up to the instance that made
\* the call, and a delivery that echoes it has reached that instance.
C20_RegistryKeysAreOwnHandles ==
    /\ \A h \in DOMAIN HANDLE_MAPPING :
          /\ HANDLE_MAPPING[h] \in DOMAIN platforms
          /\ platforms[HANDLE_MAPPING[h]].platform_handle = h
          /\ 0 <= h /\ h < HANDLE_RN
    /\ \A cb \in DOMAIN requests : Issued(cb) =>
          LET echoed == requests[cb].hostCalls[1][4]
          IN /\ map_get(HANDLE_MAPPING, echoed) = [found |-> TRUE, val |-> requests[cb].obj]
             /\ \A t \in Threads :
                   (pc[t] \in WaitingDelivery \cup InDelivery /\ frame[t].ph = echoed)
                      => frame[t].obj = requests[cb].obj

\* C20 witness: with two instances registered, the second one issued a
\* request carrying platform handle 1, and a delivery echoing 1 has found the
\* second instance.
C20_Witness ==
    \E cb \in DOMAIN requests, t \in Threads :
        /\ DOMAIN HANDLE_MAPPING = {0, 1}
        /\ HANDLE_RN = 2
        /\ requests[cb].obj = 1
        /\ requests[cb].result = "Ok"
        /\ requests[cb].hostCalls[1][4] = 1
        /\ pc[t] \in {"ds_pop", "de_pop"}
        /\ frame[t].ph = 1
        /\ frame[t].obj = 1
        /\ frame[t].rh = requests[cb].rh
====
